---- MODULE Spec2Model ----
(***************************************************************************)
(* A model of the str-list crate (src/src/lib.rs): a list of strings       *)
(* packed in one byte buffer, each string followed by the byte DELIMITER.  *)
(*                                                                         *)
(*  - StrList    : the borrowed view; modelled by the sequence of bytes    *)
(*                 it windows.                                             *)
(*  - StrListBuf : the owned buffer; the variable inner is its Vec<u8>.    *)
(*  - Iter / IterMut : the variable itInner is the remaining view.         *)
(*                                                                         *)
(* Spec     is the life of one StrListBuf: push, pop, clear, is_empty and  *)
(*          the iterators borrowed from it.                                *)
(* SpecCmp  draws two lists, builds both buffers with from_iter and        *)
(*          applies the pure operations: cmp, ==, split_first, split_last. *)
(***************************************************************************)
EXTENDS Integers, Sequences, FiniteSets

VARIABLES inner,      \* StrListBuf.inner of the buffer
          elems,      \* history: the strings the buffer was asked to hold
          pushes,     \* history: push calls since the buffer was last new/cleared
          pops,       \* history: pop calls that returned true since then
          op,         \* the last operation called
          ret,        \* what the last operation returned
          itKind,     \* "none", "Iter" or "IterMut": the live borrow of inner
          itInner,    \* Iter.inner / IterMut.inner, the remaining view
          itFront,    \* history: the items next() returned
          itBack,     \* history: the items next_back() returned
          other,      \* StrListBuf.inner of a second buffer (SpecCmp)
          elemsOther  \* the strings the second buffer was built from

vars == <<inner, elems, pushes, pops, op, ret, itKind, itInner, itFront,
          itBack, other, elemsOther>>

----------------------------------------------------------------------------
(* Bounds of the model.                                                    *)

MaxStrLen == 2
MaxBytes == 5
MaxPushes == 5
MaxCmpBytes == 4

(* Bytes that occur in the strings pushed: a &str is valid UTF-8, which    *)
(* never holds the byte 0xff.                                              *)
Alphabet == {97, 98}

Strs == UNION {[1..n -> Alphabet] : n \in 0..MaxStrLen}

----------------------------------------------------------------------------
(* Rust values.                                                            *)

(* A separator that valid text can hold. *)
DELIMITER_in_text == CHOOSE b \in Alphabet : \A c \in Alphabet : b >= c

DELIMITER == 255

None == [some |-> FALSE]
Some(v) == [some |-> TRUE, val |-> v]
Unit == "()"

(* s[a..b] with Rust's 0-based, end-exclusive bounds. *)
Slice(s, a, b) == SubSeq(s, a + 1, b)

(* self.inner.iter().position(|&b| b == DELIMITER) *)
position(s) ==
    LET hits == {i \in 1..Len(s) : s[i] = DELIMITER}
    IN  IF hits = {} THEN None
        ELSE Some((CHOOSE i \in hits : \A j \in hits : i <= j) - 1)

(* inner.iter().rposition(|&b| b == DELIMITER) *)
rposition(s) ==
    LET hits == {i \in 1..Len(s) : s[i] = DELIMITER}
    IN  IF hits = {} THEN None
        ELSE Some((CHOOSE i \in hits : \A j \in hits : i >= j) - 1)

(* <[u8]>::split_last: Some((last, init)) of a non-empty slice. *)
slice_split_last(s) ==
    IF Len(s) = 0 THEN None
    ELSE Some(<<s[Len(s)], Slice(s, 0, Len(s) - 1)>>)

(* <[u8]>::split_at_mut(i) *)
split_at_mut(s, i) == <<Slice(s, 0, i), Slice(s, i, Len(s))>>

(* Ord for [u8] and for str: the first differing byte decides, then the    *)
(* lengths.                                                                *)
slice_cmp(a, b) ==
    LET l == IF Len(a) < Len(b) THEN Len(a) ELSE Len(b)
        diff == {i \in 1..l : a[i] # b[i]}
    IN  IF diff # {}
        THEN LET k == CHOOSE i \in diff : \A j \in diff : i <= j
             IN  IF a[k] < b[k] THEN "Less" ELSE "Greater"
        ELSE IF Len(a) < Len(b) THEN "Less"
        ELSE IF Len(a) > Len(b) THEN "Greater"
        ELSE "Equal"

(* Shorter strings first, then byte order. *)
str_cmp_by_len(a, b) ==
    IF Len(a) < Len(b) THEN "Less"
    ELSE IF Len(a) > Len(b) THEN "Greater"
    ELSE slice_cmp(a, b)

str_cmp(a, b) == slice_cmp(a, b)

----------------------------------------------------------------------------
(* StrList                                                                 *)

split_first(self) ==
    LET p == position(self)
    IN  IF p.some
        THEN Some(<<Slice(self, 0, p.val), Slice(self, p.val + 1, Len(self))>>)
        ELSE None

split_first_mut(self) ==
    LET delimiter_position == position(self)
    IN  IF delimiter_position.some
        THEN LET lr == split_at_mut(self, delimiter_position.val)
             IN  Some(<<lr[1], Slice(lr[2], 1, Len(lr[2]))>>)
        ELSE None

(* split_last that takes the position of the previous separator, not the  *)
(* one after it.                                                           *)
split_last_at_delimiter(self) ==
    LET sl == slice_split_last(self)
    IN  IF sl.some
        THEN LET init == sl.val[2]
                 r == rposition(init)
                 i == IF r.some THEN r.val ELSE 0
             IN  Some(<<Slice(init, i, Len(init)), Slice(init, 0, i)>>)
        ELSE None

(* split_last that leaves the trailing separator in the last string. *)
split_last_keep_trailing(self) ==
    LET sl == slice_split_last(self)
    IN  IF sl.some
        THEN LET init == sl.val[2]
                 r == rposition(init)
                 i == IF r.some THEN r.val + 1 ELSE 0
             IN  Some(<<Slice(self, i, Len(self)), Slice(init, 0, i)>>)
        ELSE None

split_last(self) ==
    LET sl == slice_split_last(self)
    IN  IF sl.some
        THEN LET init == sl.val[2]
                 r == rposition(init)
                 i == IF r.some THEN r.val + 1 ELSE 0
             IN  Some(<<Slice(init, i, Len(init)), Slice(init, 0, i)>>)
        ELSE None

split_last_mut(self) ==
    LET sl == slice_split_last(self)
    IN  IF sl.some
        THEN LET init == sl.val[2]
                 r == rposition(init)
                 i == IF r.some THEN r.val + 1 ELSE 0
                 lr == split_at_mut(init, i)
             IN  Some(<<lr[2], lr[1]>>)
        ELSE None

(* StrList::iter / iter_mut: the iterator starts with the whole view. *)
iter(self) == self
iter_mut(self) == self

(* <&StrList>::default() *)
default_view == <<>>

----------------------------------------------------------------------------
(* Iter and IterMut: the new remaining view and the item returned.         *)

Iter_next(it) ==
    LET r == split_first(it)
    IN  IF r.some THEN [inner |-> r.val[2], item |-> Some(r.val[1])]
        ELSE [inner |-> it, item |-> None]

Iter_next_back(it) ==
    LET r == split_last(it)
    IN  IF r.some THEN [inner |-> r.val[2], item |-> Some(r.val[1])]
        ELSE [inner |-> it, item |-> None]

(* IterMut::next that takes self.inner and never puts the rest back. *)
IterMut_next_no_restore(it) ==
    LET r == split_first_mut(it)
    IN  IF r.some THEN [inner |-> default_view, item |-> Some(r.val[1])]
        ELSE [inner |-> default_view, item |-> None]

(* mem::take leaves the default (empty) view in self.inner. *)
IterMut_next(it) ==
    LET r == split_first_mut(it)
    IN  IF r.some THEN [inner |-> r.val[2], item |-> Some(r.val[1])]
        ELSE [inner |-> default_view, item |-> None]

IterMut_next_back(it) ==
    LET r == split_last_mut(it)
    IN  IF r.some THEN [inner |-> r.val[2], item |-> Some(r.val[1])]
        ELSE [inner |-> default_view, item |-> None]

(* Iterator::cmp of two Iter: compare item by item. *)
RECURSIVE Iterator_cmp(_, _)
Iterator_cmp(a, b) ==
    LET x == Iter_next(a)
        y == Iter_next(b)
    IN  IF ~x.item.some
        THEN (IF y.item.some THEN "Less" ELSE "Equal")
        ELSE IF ~y.item.some THEN "Greater"
        ELSE LET c == str_cmp(x.item.val, y.item.val)
             IN  IF c # "Equal" THEN c ELSE Iterator_cmp(x.inner, y.inner)

(* Ord derived on the packed bytes. *)
StrList_cmp_bytes(self, o) == slice_cmp(self, o)

(* impl Ord for StrList *)
StrList_cmp(self, o) == Iterator_cmp(iter(self), iter(o))

(* derive(PartialEq) on StrList / StrListBuf: equality of the bytes. *)
derived_eq(self, o) ==
    /\ Len(self) = Len(o)
    /\ \A i \in 1..Len(self) : self[i] = o[i]

(* Full forward iteration: next() until None. *)
RECURSIVE ForwardAll(_)
ForwardAll(it) ==
    LET r == Iter_next(it)
    IN  IF r.item.some THEN <<r.item.val>> \o ForwardAll(r.inner) ELSE <<>>

----------------------------------------------------------------------------
(* StrListBuf                                                              *)

new == <<>>
with_capacity(capacity) == <<>>

(* Deref for StrListBuf: the view over the whole Vec. *)
deref(self) == self

(* push that writes the separator before the value. *)
push_delimiter_first(self, value) == (self \o <<DELIMITER>>) \o value

(* push that writes nothing for an empty value. *)
push_skip_empty(self, value) ==
    IF value = <<>> THEN self ELSE Append(self \o value, DELIMITER)

push(self, value) == Append(self \o value, DELIMITER)

(* pop that truncates to the length of the last string, not of the rest. *)
pop_truncate_to_last(self) ==
    LET r == split_last(deref(self))
    IN  IF r.some
        THEN [inner |-> Slice(self, 0, Len(r.val[1])), ret |-> TRUE]
        ELSE [inner |-> self, ret |-> FALSE]

(* pop that reports a removal also on an empty buffer. *)
pop_always_true(self) ==
    LET r == split_last(deref(self))
    IN  IF r.some
        THEN [inner |-> Slice(self, 0, Len(r.val[2])), ret |-> TRUE]
        ELSE [inner |-> self, ret |-> TRUE]

(* pop: the new bytes and the value returned. *)
pop(self) ==
    LET r == split_last(deref(self))
    IN  IF r.some
        THEN [inner |-> Slice(self, 0, Len(r.val[2])), ret |-> TRUE]
        ELSE [inner |-> self, ret |-> FALSE]

clear(self) == <<>>

is_empty(self) == Len(self) = 0

(* Extend / FromIterator: push every value in order. *)
RECURSIVE extend(_, _)
extend(self, values) ==
    IF values = <<>> THEN self
    ELSE extend(push(self, Head(values)), Tail(values))

from_iter(values) == extend(new, values)

(* impl Ord for StrListBuf *)
StrListBuf_cmp(self, o) == Iterator_cmp(iter(deref(self)), iter(deref(o)))

----------------------------------------------------------------------------
(* Spec: one StrListBuf and the iterators borrowed from it.                *)

Init ==
    /\ inner \in {new} \cup {with_capacity(n) : n \in 0..MaxBytes}
    /\ elems = <<>>
    /\ pushes = 0
    /\ pops = 0
    /\ op = "new"
    /\ ret = Unit
    /\ itKind = "none"
    /\ itInner = default_view
    /\ itFront = <<>>
    /\ itBack = <<>>
    /\ other = new
    /\ elemsOther = <<>>

NoIter == UNCHANGED <<itKind, itInner, itFront, itBack>>
NoOther == UNCHANGED <<other, elemsOther>>

(* The borrow rules: the buffer is mutated only while no iterator        *)
(* borrows it.                                                           *)
Push(value) ==
    /\ itKind = "none"
    /\ pushes < MaxPushes
    /\ Len(inner) + Len(value) + 1 <= MaxBytes
    /\ inner' = push(inner, value)
    /\ elems' = Append(elems, value)
    /\ pushes' = pushes + 1
    /\ op' = "push"
    /\ ret' = Unit
    /\ UNCHANGED pops
    /\ NoIter /\ NoOther

Pop ==
    /\ itKind = "none"
    /\ LET r == pop(inner)
       IN  /\ inner' = r.inner
           /\ ret' = r.ret
           /\ pops' = IF r.ret THEN pops + 1 ELSE pops
           /\ elems' = IF r.ret THEN SubSeq(elems, 1, Len(elems) - 1) ELSE elems
    /\ op' = "pop"
    /\ UNCHANGED pushes
    /\ NoIter /\ NoOther

Clear ==
    /\ itKind = "none"
    /\ inner' = clear(inner)
    /\ elems' = <<>>
    /\ pushes' = 0
    /\ pops' = 0
    /\ op' = "clear"
    /\ ret' = Unit
    /\ NoIter /\ NoOther

IsEmpty ==
    /\ itKind = "none"
    /\ ret' = is_empty(inner)
    /\ op' = "is_empty"
    /\ UNCHANGED <<inner, elems, pushes, pops>>
    /\ NoIter /\ NoOther

(* (&buf).iter() / (&mut buf).iter_mut() *)
NewIter(kind) ==
    /\ itKind = "none"
    /\ itKind' = kind
    /\ itInner' = IF kind = "Iter" THEN iter(deref(inner))
                  ELSE iter_mut(deref(inner))
    /\ itFront' = <<>>
    /\ itBack' = <<>>
    /\ op' = "iter"
    /\ ret' = Unit
    /\ UNCHANGED <<inner, elems, pushes, pops>>
    /\ NoOther

Next_ ==
    /\ itKind # "none"
    /\ LET r == IF itKind = "Iter" THEN Iter_next(itInner)
                ELSE IterMut_next(itInner)
       IN  /\ itInner' = r.inner
           /\ ret' = r.item
           /\ itFront' = IF r.item.some THEN Append(itFront, r.item.val)
                         ELSE itFront
    /\ op' = "next"
    /\ UNCHANGED <<inner, elems, pushes, pops, itKind, itBack>>
    /\ NoOther

NextBack ==
    /\ itKind # "none"
    /\ LET r == IF itKind = "Iter" THEN Iter_next_back(itInner)
                ELSE IterMut_next_back(itInner)
       IN  /\ itInner' = r.inner
           /\ ret' = r.item
           /\ itBack' = IF r.item.some THEN Append(itBack, r.item.val)
                        ELSE itBack
    /\ op' = "next_back"
    /\ UNCHANGED <<inner, elems, pushes, pops, itKind, itFront>>
    /\ NoOther

(* The iterator goes out of scope and the borrow ends. *)
DropIter ==
    /\ itKind # "none"
    /\ itKind' = "none"
    /\ itInner' = default_view
    /\ itFront' = <<>>
    /\ itBack' = <<>>
    /\ op' = "drop"
    /\ ret' = Unit
    /\ UNCHANGED <<inner, elems, pushes, pops>>
    /\ NoOther

Next ==
    \/ \E value \in Strs : Push(value)
    \/ Pop
    \/ Clear
    \/ IsEmpty
    \/ \E kind \in {"Iter", "IterMut"} : NewIter(kind)
    \/ Next_
    \/ NextBack
    \/ DropIter

Spec == Init /\ [][Next]_vars

----------------------------------------------------------------------------
(* SpecCmp: two lists built with from_iter, and the pure operations on     *)
(* them.                                                                   *)

(* The lists whose packed form takes at most budget bytes. *)
RECURSIVE ElemSeqsWithin(_)
ElemSeqsWithin(budget) ==
    {<<>>} \cup
    UNION {{<<s>> \o l : l \in ElemSeqsWithin(budget - Len(s) - 1)} :
              s \in {t \in Strs : Len(t) + 1 <= budget}}

ElemSeqs == ElemSeqsWithin(MaxCmpBytes)

InitCmp ==
    /\ elems \in ElemSeqs
    /\ elemsOther \in ElemSeqs
    /\ inner = from_iter(elems)
    /\ other = from_iter(elemsOther)
    /\ pushes = Len(elems)
    /\ pops = 0
    /\ op = "from_iter"
    /\ ret = Unit
    /\ itKind = "none"
    /\ itInner = default_view
    /\ itFront = <<>>
    /\ itBack = <<>>

Pure(name, value) ==
    /\ op' = name
    /\ ret' = value
    /\ UNCHANGED <<inner, elems, pushes, pops>>
    /\ NoIter /\ NoOther

Cmp == Pure("cmp", StrList_cmp(deref(inner), deref(other)))
CmpBuf == Pure("cmp_buf", StrListBuf_cmp(inner, other))
Eq == Pure("eq", derived_eq(inner, other))
SplitFirst == Pure("split_first", split_first(deref(inner)))
SplitFirstMut == Pure("split_first_mut", split_first_mut(deref(inner)))
SplitLast == Pure("split_last", split_last(deref(inner)))
SplitLastMut == Pure("split_last_mut", split_last_mut(deref(inner)))

NextCmp ==
    \/ Cmp
    \/ CmpBuf
    \/ Eq
    \/ SplitFirst
    \/ SplitFirstMut
    \/ SplitLast
    \/ SplitLastMut

SpecCmp == InitCmp /\ [][NextCmp]_vars

----------------------------------------------------------------------------
(* Vocabulary of the properties.                                           *)

Front(s) == SubSeq(s, 1, Len(s) - 1)
Reverse(s) == [i \in 1..Len(s) |-> s[Len(s) + 1 - i]]
Count == pushes - pops

(* a is a proper prefix of b *)
ProperPrefix(a, b) == Len(a) < Len(b) /\ SubSeq(b, 1, Len(a)) = a

(* a is lexicographically less than b, byte by byte *)
StrLess(a, b) ==
    \/ ProperPrefix(a, b)
    \/ \E k \in 1..Len(a) :
          /\ k <= Len(b)
          /\ SubSeq(a, 1, k - 1) = SubSeq(b, 1, k - 1)
          /\ a[k] < b[k]

(* The first index at which the lists A and B both have an element and    *)
(* the elements differ; 0 if there is none.                               *)
FirstDiff(A, B) ==
    LET d == {i \in 1..Len(A) : i <= Len(B) /\ A[i] # B[i]}
    IN  IF d = {} THEN 0 ELSE CHOOSE i \in d : \A j \in d : i <= j

ListLess(A, B) ==
    LET i == FirstDiff(A, B)
    IN  IF i # 0 THEN StrLess(A[i], B[i]) ELSE ProperPrefix(A, B)

----------------------------------------------------------------------------
(* C1: after any sequence of push, pop and clear the bytes of the buffer   *)
(* are empty or end with the separator, and the number of separator bytes  *)
(* is the number of elements the list holds.                               *)
C1_WellFormed ==
    /\ inner = <<>> \/ inner[Len(inner)] = 255
    /\ Cardinality({i \in 1..Len(inner) : inner[i] = 255}) = Len(elems)
    /\ Len(elems) = Count

C1_Witness ==
    /\ op = "pop" /\ ret = TRUE
    /\ Len(elems) >= 2
    /\ \E i \in 1..Len(elems) : elems[i] = <<>>
    /\ \E i \in 1..Len(elems) : elems[i] # <<>>

(* C2: the strings pushed in order into an empty buffer come back in the   *)
(* same order from next() called until None, and in the reverse order     *)
(* from next_back() called until None.                                     *)
C2_RoundTrip ==
    /\ (/\ itKind = "Iter" /\ pops = 0 /\ op = "next" /\ ret = None
        /\ itBack = <<>>)
       => itFront = elems
    /\ (/\ itKind = "Iter" /\ pops = 0 /\ op = "next_back" /\ ret = None
        /\ itFront = <<>>)
       => itBack = Reverse(elems)

C2_Witness ==
    /\ itKind = "Iter" /\ pops = 0 /\ op = "next_back" /\ ret = None
    /\ itFront = <<>>
    /\ Len(elems) >= 3
    /\ \E i \in 1..Len(elems) : elems[i] = <<>>
    /\ \E i, j \in 1..Len(elems) : i # j /\ elems[i] = elems[j] /\ elems[i] # <<>>
    /\ elems # Reverse(elems)

(* C3: full forward iteration yields pushes minus successful pops          *)
(* elements, and is_empty() is false iff that count is not zero.           *)
C3_Count ==
    /\ Len(ForwardAll(iter(deref(inner)))) = Count
    /\ op = "is_empty" => (ret = FALSE <=> Count # 0)

C3_Witness ==
    /\ op = "is_empty" /\ ret = FALSE
    /\ pops >= 1
    /\ Count >= 2
    /\ \A i \in 1..Len(elems) : elems[i] = <<>>

(* C4: pop() on a buffer holding e1..en, n >= 1, returns true and leaves   *)
(* the encoding of e1..e(n-1): the former bytes cut to the length of the   *)
(* rest that split_last returns.                                           *)
C4_PopLast ==
    [][(op' = "pop" /\ Len(elems) >= 1) =>
          /\ ret' = TRUE
          /\ inner' = from_iter(Front(elems))
          /\ inner' = SubSeq(inner, 1, Len(split_last(deref(inner)).val[2]))
          /\ ForwardAll(iter(deref(inner'))) = Front(ForwardAll(iter(deref(inner))))
      ]_vars

C4_Witness ==
    /\ op = "pop" /\ ret = TRUE
    /\ Len(elems) >= 2
    /\ elems[Len(elems)] = <<>>
    /\ elems[1] # <<>>

(* C5: pop() on an empty buffer returns false and leaves it empty;         *)
(* is_empty() after clear() is true.                                       *)
C5_Emptiness ==
    [][/\ (op' = "pop" /\ is_empty(inner)) => (ret' = FALSE /\ inner' = <<>>)
       /\ op' = "clear" => inner' = <<>>
       /\ (op = "clear" /\ op' = "is_empty") => ret' = TRUE
      ]_vars

C5_Witness ==
    /\ op = "pop" /\ ret = FALSE
    /\ pushes >= 1

(* C9: under any interleaving of next() and next_back() the k-th item of   *)
(* next() is e_k and the j-th item of next_back() is e_(n+1-j); n calls    *)
(* in all return an item, and when the ends have met both return None.     *)
C9_DoubleEnded ==
    itKind # "none" =>
        LET n == Len(elems)
            f == Len(itFront)
            b == Len(itBack)
            nx == IF itKind = "Iter" THEN Iter_next(itInner)
                  ELSE IterMut_next(itInner)
            nb == IF itKind = "Iter" THEN Iter_next_back(itInner)
                  ELSE IterMut_next_back(itInner)
        IN  /\ f + b <= n
            /\ \A k \in 1..f : itFront[k] = elems[k]
            /\ \A j \in 1..b : itBack[j] = elems[n + 1 - j]
            /\ (f + b = n) <=> ~nx.item.some
            /\ (f + b = n) <=> ~nb.item.some
            /\ (op \in {"next", "next_back"} /\ ~ret.some) => f + b = n

C9_Witness ==
    /\ itKind = "IterMut"
    /\ op = "next" /\ ret = None
    /\ Len(itFront) >= 1 /\ Len(itBack) >= 2
    /\ \E i \in 1..Len(elems) : elems[i] = <<>>

(* C6: cmp gives Less iff at the first index where the elements differ    *)
(* A's element is lexicographically less, or A's elements are a strict    *)
(* prefix of B's; it gives Equal iff the element sequences are the same.   *)
C6_Ordering ==
    op \in {"cmp", "cmp_buf"} =>
        /\ ret = "Less" <=> ListLess(elems, elemsOther)
        /\ ret = "Greater" <=> ListLess(elemsOther, elems)
        /\ ret = "Equal" <=> elems = elemsOther

C6_Witness ==
    /\ op = "cmp" /\ ret = "Greater"
    /\ Len(elems) < Len(elemsOther)
    /\ FirstDiff(elems, elemsOther) = 2

(* C7: == holds iff the packed bytes are identical, and iff the element    *)
(* sequences are the same: different element sequences have different      *)
(* bytes and different well-formed bytes decode to different elements.     *)
C7_Equality ==
    op = "eq" =>
        /\ ret <=> inner = other
        /\ ret <=> elems = elemsOther
        /\ ret <=> ForwardAll(iter(deref(inner))) = ForwardAll(iter(deref(other)))

C7_Witness ==
    /\ op = "eq" /\ ret = FALSE
    /\ Len(inner) = Len(other)
    /\ Len(elems) # Len(elemsOther)

(* C8: on a non-empty view X split_first returns (first, rest) with        *)
(* first ++ [0xFF] ++ rest = X and split_last returns (last, rest) with    *)
(* rest ++ last ++ [0xFF] = X; both return None exactly on the empty view. *)
C8_SplitSymmetry ==
    /\ op = "split_first" =>
          IF inner = <<>> THEN ret = None
          ELSE ret.some /\ (ret.val[1] \o <<255>>) \o ret.val[2] = inner
    /\ op = "split_last" =>
          IF inner = <<>> THEN ret = None
          ELSE ret.some /\ (ret.val[2] \o ret.val[1]) \o <<255>> = inner

C8_Witness ==
    /\ op = "split_last" /\ ret.some
    /\ ret.val[1] # <<>>
    /\ ret.val[2] # <<>>
    /\ Len(elems) >= 2

(* C10: element-wise cmp and the byte-wise comparison of the packed        *)
(* buffers disagree: when at the first differing index A's element is a    *)
(* proper prefix of B's, cmp gives Less and the bytes compare Greater.     *)
C10_NotByteOrder ==
    (/\ op = "cmp"
     /\ FirstDiff(elems, elemsOther) # 0
     /\ ProperPrefix(elems[FirstDiff(elems, elemsOther)],
                     elemsOther[FirstDiff(elems, elemsOther)]))
    => (ret = "Less" /\ slice_cmp(inner, other) = "Greater")

C10_Witness ==
    /\ op = "cmp"
    /\ ret # slice_cmp(inner, other)
    /\ ret = "Less"
    /\ slice_cmp(inner, other) = "Greater"

====
